---- MODULE Spec2Model ----
(***************************************************************************)
(* Model of the WoWCommunityAPI client (src/src/index.js) and of its       *)
(* error class (src/unnamed/part_001, imported as ./api-error).            *)
(*                                                                         *)
(* JavaScript values are tagged records, a JavaScript object is the        *)
(* sequence of its <<key, value>> pairs in insertion order.  Every promise *)
(* chain is a little process: one action per handler of the chain.         *)
(***************************************************************************)
EXTENDS Integers, Sequences, FiniteSets, TLC

\* Number of calls made on the client; all of them may be in flight at once.
MaxCalls == 2

Slots == 1..MaxCalls

(***************************************************************************)
(* JavaScript values                                                       *)
(***************************************************************************)
Undefined == [t |-> "undefined"]
Null == [t |-> "null"]
Str(s) == [t |-> "str", s |-> s]
Num(n) == [t |-> "num", n |-> n]
Arr(a) == [t |-> "arr", a |-> a]
Obj(p) == [t |-> "obj", p |-> p]

\* ToBoolean
Truthy(v) ==
    CASE v.t \in {"undefined", "null"} -> FALSE
      [] v.t = "str" -> v.s # ""
      [] v.t = "num" -> v.n # 0
      [] OTHER -> TRUE

\* a property read on v throws a TypeError
Nullish(v) == v.t \in {"undefined", "null"}

HasKey(o, k) == o.t = "obj" /\ \E j \in DOMAIN o.p : o.p[j][1] = k

Keys(o) == IF o.t = "obj" THEN {o.p[j][1] : j \in DOMAIN o.p} ELSE {}

\* v[k] for a value v that is not nullish
Prop(v, k) ==
    IF HasKey(v, k)
    THEN v.p[CHOOSE j \in DOMAIN v.p : v.p[j][1] = k][2]
    ELSE IF v.t = "arr" /\ k = "length" THEN Num(Len(v.a))
    ELSE Undefined

\* v[0] for a value v that is not nullish
First(v) == IF v.t = "arr" /\ Len(v.a) > 0 THEN v.a[1] ELSE Undefined

\* one own property written: replaced in place, or appended
Put(p, k, v) ==
    IF \E j \in DOMAIN p : p[j][1] = k
    THEN [j \in DOMAIN p |-> IF p[j][1] = k THEN <<k, v>> ELSE p[j]]
    ELSE Append(p, <<k, v>>)

RECURSIVE AssignPairs(_, _)
AssignPairs(p, s) ==
    IF s = <<>> THEN p ELSE AssignPairs(Put(p, s[1][1], s[1][2]), Tail(s))

\* Object.assign(target, source): the value of target afterwards
\* (a source that is not an object has no own enumerable keys here)
ObjectAssign(target, source) ==
    IF source.t = "obj" THEN Obj(AssignPairs(target.p, source.p)) ELSE target

RECURSIVE JoinFrom(_, _, _)
JoinFrom(a, sep, j) ==
    IF j > Len(a) THEN ""
    ELSE (IF j > 1 THEN sep ELSE "") \o a[j].s \o JoinFrom(a, sep, j + 1)

\* Array.prototype.join on an array of strings
Join(v, sep) == Str(JoinFrom(v.a, sep, 1))

\* querystring's stringifyPrimitive
StringifyPrimitive(v) ==
    CASE v.t = "str" -> v.s
      [] v.t = "num" -> ToString(v.n)
      [] OTHER -> ""

RECURSIVE StringifyPairs(_)
StringifyPairs(p) ==
    IF p = <<>> THEN <<>>
    ELSE LET k == p[1][1]
             v == p[1][2]
             here == IF v.t = "arr"
                     THEN [j \in DOMAIN v.a |-> <<k, StringifyPrimitive(v.a[j])>>]
                     ELSE << <<k, StringifyPrimitive(v)>> >>
         IN  here \o StringifyPairs(Tail(p))

\* qs.stringify(obj): the key=value pairs of the query string, in order
\* (percent-encoding of the values is not modelled)
QsStringify(o) == IF o.t = "obj" THEN StringifyPairs(o.p) ELSE <<>>

\* the values the query string carries for key k
QsValues(q, k) == {q[j][2] : j \in {n \in DOMAIN q : q[n][1] = k}}

(***************************************************************************)
(* Errors                                                                  *)
(***************************************************************************)
\* new APIError(code, message)
APIError(code, message) ==
    [cls |-> "APIError", name |-> "FetchError", code |-> code, message |-> message]

\* thrown by the engine on a property read of undefined or null
TypeError == [cls |-> "TypeError"]

\* raised by the transport (node-fetch): no status code
InvalidJson == [cls |-> "TransportError", type |-> "invalid-json"]
RequestTimeout == [cls |-> "TransportError", type |-> "request-timeout"]
SystemError == [cls |-> "TransportError", type |-> "system"]

TransportFaults == {RequestTimeout, SystemError}

(***************************************************************************)
(* Promises                                                                *)
(***************************************************************************)
Pending == [state |-> "pending", value |-> Undefined]

\* resolve(v) and reject(e) of a promise executor: the first call settles
Resolve(p, v) ==
    IF p.state = "pending" THEN [state |-> "fulfilled", value |-> v] ELSE p

Reject(p, e) ==
    IF p.state = "pending" THEN [state |-> "rejected", value |-> e] ELSE p

(***************************************************************************)
(* The constructor                                                         *)
(***************************************************************************)
\* /^(?:us|eu)$/.test(region)
RegionTest(region) == StringifyPrimitive(region) \in {"us", "eu"}

\* the value of `locale && !/^(?:en_US|es_MX|pt_BR)$/`: the regular
\* expression object is never applied, and an object is truthy
LocaleRejected(locale) == Truthy(locale) /\ ~ TRUE

Or(v, w) == IF Truthy(v) THEN v ELSE w

NoClient == [t |-> "undefined"]

\* the constructor without the test of the region
constructorAnyRegion(a) ==
    IF ~ Truthy(a.apiKey)
    THEN [threw |-> "API key not provided", this |-> NoClient]
    ELSE [threw |-> "",
          this |-> [t |-> "client",
                    apiHost |-> "https://" \o Or(a.region, Str("us")).s \o ".api.battle.net/wow",
                    fetchOptions |-> Obj(<< <<"timeout", Num(5000)>> >>),
                    queryOptions |-> Obj(<< <<"apikey", a.apiKey>>,
                                            <<"locale", Or(a.locale, Str("en_US"))>> >>)]]

\* new WoWCommunityAPI({ apiKey, locale, region }): the object built, or
\* the error thrown
constructor(a) ==
    IF ~ Truthy(a.apiKey)
    THEN [threw |-> "API key not provided", this |-> NoClient]
    ELSE IF Truthy(a.region) /\ ~ RegionTest(a.region)
    THEN [threw |-> "Region must be \"eu\" or \"us\"", this |-> NoClient]
    ELSE IF LocaleRejected(a.locale)
    THEN [threw |-> "Locale must be \"en_US\", \"es_MX\", or \"pt_BR\"", this |-> NoClient]
    ELSE [threw |-> "",
          this |-> [t |-> "client",
                    apiHost |-> "https://" \o Or(a.region, Str("us")).s \o ".api.battle.net/wow",
                    fetchOptions |-> Obj(<< <<"timeout", Num(5000)>> >>),
                    queryOptions |-> Obj(<< <<"apikey", a.apiKey>>,
                                            <<"locale", Or(a.locale, Str("en_US"))>> >>)]]

(***************************************************************************)
(* The network                                                             *)
(***************************************************************************)
\* what JSON.parse rejects: an empty or non-JSON response text
NotJson == [t |-> "notjson"]

Statuses == {200, 299, 300, 404}

Manifest(entry) == Obj(<< <<"files", Arr(<<entry>>)>> >>)

\* bodies answered to a request of query()
Bodies ==
    { Null,
      Obj(<< <<"reason", Str("r")>> >>),
      Obj(<< <<"files", Arr(<<>>)>> >>),
      Manifest(Obj(<< <<"url", Str("https://x/y.json")>> >>)),
      Manifest(Obj(<< <<"url", Str("https://x/y.json")>>, <<"lastModified", Num(123)>> >>)),
      NotJson }

\* bodies answered to the request of the auction file
FileBodies ==
    { Null,
      Obj(<< <<"someField", Str("v")>> >>),
      Obj(<< <<"someField", Str("v")>>, <<"lastModified", Num(999)>> >>),
      NotJson }

Response(status, body) == [t |-> "response", status |-> status, body |-> body]

\* /^2\d{2}$/.test(status), on the decimal digits of the number
StatusTest(status) ==
    LET d == ToString(status)
    IN  Len(d) = 3 /\ status \div 100 = 2

(***************************************************************************)
(* State                                                                   *)
(***************************************************************************)
VARIABLES
    args,         \* the argument of the constructor
    threw,        \* the message of the error the constructor threw, or ""
    client,       \* the WoWCommunityAPI object, NoClient when construction threw
    calls,        \* per slot: the promise chain of query()
    auctions,     \* per slot: the promise chain of auction() around query()
    lastCall,     \* the public method called last, with its arguments
    lastRequest   \* the request query() issued last

vars == <<args, threw, client, calls, auctions, lastCall, lastRequest>>

CtorArgs ==
    [apiKey : {Undefined, Str(""), Str("KEY")},
     locale : {Undefined, Str("xx_XX")},
     region : {Undefined, Str(""), Str("us"), Str("eu"), Str("US"), Str("kr")}]

\* pc: idle, fetch (request in flight), then2, catch, done
\* status is this.status of the bound context, body the parsed body handed
\* to the second handler, err the error handed to the catch handler; the
\* context and the handlers' arguments are gone once the chain is done
IdleCall ==
    [pc |-> "idle", status |-> Undefined, body |-> Undefined, err |-> Undefined,
     promise |-> Pending, requests |-> 0]

\* pc: none, wait (for query), fetch (second request in flight), then2
\* (line 85 has returned undefined), then3, catch, done
NoAuction ==
    [pc |-> "none", lastModified |-> Undefined, status |-> Undefined,
     body |-> Undefined, err |-> Undefined, promise |-> Pending, requests |-> 0]

\* the constructions of test/index.js (only an API key), and one with
\* every option given
TestArgs ==
    { [apiKey |-> Str("KEY"), locale |-> Undefined, region |-> Undefined],
      [apiKey |-> Str("KEY"), locale |-> Str("xx_XX"), region |-> Str("eu")] }

\* the state after `new WoWCommunityAPI(a)`, for a drawn from A
Constructed(A) ==
    /\ args \in A
    /\ threw = constructor(args).threw
    /\ client = constructor(args).this
    /\ calls = [i \in Slots |-> IdleCall]
    /\ auctions = [i \in Slots |-> NoAuction]
    /\ lastCall = Undefined
    /\ lastRequest = Undefined

Init == Constructed(TestArgs)

InitCtor == Constructed(CtorArgs)

\* the calls take the slots in order, on a client that was constructed
Free(i) ==
    /\ client # NoClient
    /\ calls[i].pc = "idle"
    /\ \A j \in Slots : j < i => calls[j].pc # "idle"

(***************************************************************************)
(* query(path, params)                                                     *)
(***************************************************************************)
\* lines 38-40: the url is built from Object.assign(this.queryOptions,
\* params), which writes params into this.queryOptions; fetch is called
query(i, path, params) ==
    LET merged == ObjectAssign(client.queryOptions, params)
    IN  /\ client' = [client EXCEPT !.queryOptions = merged]
        /\ lastRequest' = [url |-> client.apiHost \o "/" \o path,
                           query |-> QsStringify(merged),
                           options |-> client.fetchOptions]
        /\ calls' = [calls EXCEPT ![i].pc = "fetch", ![i].requests = 1]
        /\ UNCHANGED <<args, threw>>

\* lines 42-45 once fetch has resolved with res: this.status = res.status,
\* and res.json() hands the parsed body to the next handler or rejects
queryThen1(i, res) ==
    /\ calls[i].pc = "fetch"
    /\ calls' = [calls EXCEPT
            ![i].status = Num(res.status),
            ![i].pc = IF res.body = NotJson THEN "catch" ELSE "then2",
            ![i].body = IF res.body = NotJson THEN Undefined ELSE res.body,
            ![i].err = IF res.body = NotJson THEN InvalidJson ELSE Undefined]
    /\ UNCHANGED <<args, threw, client, auctions, lastCall, lastRequest>>

\* fetch rejects: timeout after fetchOptions.timeout, connection error
queryFault(i, e) ==
    /\ calls[i].pc = "fetch"
    /\ calls' = [calls EXCEPT ![i].pc = "catch", ![i].err = e]
    /\ UNCHANGED <<args, threw, client, auctions, lastCall, lastRequest>>

\* lines 46-48
queryThen2(i) ==
    LET c == calls[i]
        done == [c EXCEPT !.pc = "done", !.status = Undefined, !.body = Undefined]
    IN  /\ c.pc = "then2"
        /\ calls' = [calls EXCEPT ![i] =
              IF StatusTest(c.status.n)
              THEN [done EXCEPT !.promise = Resolve(c.promise, c.body)]
              ELSE IF Nullish(c.body)
              THEN [c EXCEPT !.pc = "catch", !.err = TypeError, !.body = Undefined]
              ELSE [done EXCEPT !.promise =
                       Reject(c.promise, APIError(c.status.n, Prop(c.body, "reason")))]]
        /\ UNCHANGED <<args, threw, client, auctions, lastCall, lastRequest>>

\* a catch handler that swallows the error instead of rejecting
queryCatchSwallows(i) ==
    /\ calls[i].pc = "catch"
    /\ calls' = [calls EXCEPT ![i].pc = "done", ![i].err = Undefined,
                              ![i].status = Undefined]
    /\ UNCHANGED <<args, threw, client, auctions, lastCall, lastRequest>>

\* lines 49-51
queryCatch(i) ==
    /\ calls[i].pc = "catch"
    /\ calls' = [calls EXCEPT ![i].pc = "done", ![i].err = Undefined,
                              ![i].status = Undefined,
                              ![i].promise = Reject(calls[i].promise, calls[i].err)]
    /\ UNCHANGED <<args, threw, client, auctions, lastCall, lastRequest>>

(***************************************************************************)
(* The endpoint methods                                                    *)
(***************************************************************************)
Called(method, a, queryParams) ==
    [method |-> method, arg |-> a, queryParams |-> queryParams]

\* a direct call of query(path, params)
queryCall(i, path, params) ==
    /\ Free(i)
    /\ query(i, path, params)
    /\ lastCall' = Called("query", Str(path), params)
    /\ UNCHANGED auctions

\* lines 61-63
achievement(i, id, queryParams) ==
    /\ Free(i)
    /\ query(i, "achievement/" \o ToString(id), queryParams)
    /\ lastCall' = Called("achievement", Num(id), queryParams)
    /\ UNCHANGED auctions

\* the value of `realms.constructor`
ConstructorOf(v) ==
    [t |-> "function",
     name |-> CASE v.t = "str" -> "String"
                [] v.t = "arr" -> "Array"
                [] v.t = "num" -> "Number"
                [] OTHER -> "Object"]

ArrayFunction == [t |-> "function", name |-> "Array"]

\* line 256: the object realm() puts before queryParams
RealmFilter(realms) ==
    IF Truthy(realms) /\ ConstructorOf(realms) = Str("string")
    THEN Obj(<< <<"realms", realms>> >>)
    ELSE IF Truthy(realms) /\ ConstructorOf(realms) = ArrayFunction
    THEN Obj(<< <<"realms", Join(realms, ",")>> >>)
    ELSE Obj(<<>>)

\* lines 254-258
realm(i, realms, queryParams) ==
    /\ Free(i)
    /\ query(i, "realm/status", ObjectAssign(RealmFilter(realms), queryParams))
    /\ lastCall' = Called("realm", realms, queryParams)
    /\ UNCHANGED auctions

(***************************************************************************)
(* auction(realm, queryParams)                                             *)
(***************************************************************************)
\* lines 74-77: the executor calls this.query and chains on its promise
auction(i, realmSlug, queryParams) ==
    /\ Free(i)
    /\ query(i, "auction/data/" \o realmSlug, queryParams)
    /\ auctions' = [auctions EXCEPT ![i].pc = "wait"]
    /\ lastCall' = Called("auction", Str(realmSlug), queryParams)

\* line 80: the test of the manifest, for a body that is not nullish
HasFileUrl(body) ==
    /\ Truthy(Prop(body, "files"))
    /\ Truthy(Prop(Prop(body, "files"), "length"))
    /\ Truthy(Prop(First(Prop(body, "files")), "url"))

\* line 80 throws: a property is read on null or undefined
FileTestThrows(body) ==
    \/ Nullish(body)
    \/ /\ Truthy(Prop(body, "files"))
       /\ Truthy(Prop(Prop(body, "files"), "length"))
       /\ Nullish(First(Prop(body, "files")))

Malformed == APIError(500, Str("Malformed auction response"))

\* lines 79-86, run when the promise of query() is fulfilled
auctionThen1(i) ==
    LET a == auctions[i]
        body == calls[i].promise.value
    IN  /\ a.pc = "wait"
        /\ calls[i].promise.state = "fulfilled"
        /\ auctions' = [auctions EXCEPT ![i] =
              IF FileTestThrows(body)
              THEN [a EXCEPT !.pc = "catch", !.err = TypeError]
              ELSE IF HasFileUrl(body)
              THEN [a EXCEPT !.pc = "fetch",
                             !.lastModified = Prop(First(Prop(body, "files")), "lastModified"),
                             !.requests = a.requests + 1]
              ELSE [a EXCEPT !.pc = "then2",
                             !.promise = Reject(a.promise, Malformed)]]
        /\ UNCHANGED <<args, threw, client, calls, lastCall, lastRequest>>

\* lines 87-90: run with the response of the second fetch, or with the
\* undefined that line 85 returned
auctionThen2(i, res) ==
    LET a == auctions[i]
    IN  /\ \/ a.pc = "fetch" /\ res # Undefined
           \/ a.pc = "then2" /\ res = Undefined
        /\ auctions' = [auctions EXCEPT ![i] =
              IF Nullish(res)
              THEN [a EXCEPT !.pc = "catch", !.err = TypeError]
              ELSE IF res.body = NotJson
              THEN [a EXCEPT !.pc = "catch", !.err = InvalidJson,
                             !.status = Num(res.status)]
              ELSE [a EXCEPT !.pc = "then3", !.status = Num(res.status),
                             !.body = res.body]]
        /\ UNCHANGED <<args, threw, client, calls, lastCall, lastRequest>>

\* the second fetch rejects
auctionFault(i, e) ==
    /\ auctions[i].pc = "fetch"
    /\ auctions' = [auctions EXCEPT ![i].pc = "catch", ![i].err = e]
    /\ UNCHANGED <<args, threw, client, calls, lastCall, lastRequest>>

\* lines 93-95
Merged(lastModified, body) ==
    ObjectAssign(Obj(<< <<"lastModified", lastModified>> >>), body)

\* lines 91-99
auctionThen3(i) ==
    LET a == auctions[i]
        done == [a EXCEPT !.pc = "done", !.status = Undefined, !.body = Undefined,
                          !.lastModified = Undefined]
    IN  /\ a.pc = "then3"
        /\ auctions' = [auctions EXCEPT ![i] =
              IF StatusTest(a.status.n)
              THEN [done EXCEPT !.promise = Resolve(a.promise, Merged(a.lastModified, a.body))]
              ELSE IF Nullish(a.body)
              THEN [a EXCEPT !.pc = "catch", !.err = TypeError, !.body = Undefined]
              ELSE [done EXCEPT !.promise =
                       Reject(a.promise, APIError(a.status.n, Prop(a.body, "reason")))]]
        /\ UNCHANGED <<args, threw, client, calls, lastCall, lastRequest>>

\* a catch handler that rejects with a new APIError instead of the error
auctionCatchWraps(i) ==
    LET a == auctions[i]
        upstream == a.pc = "wait" /\ calls[i].promise.state = "rejected"
    IN  /\ a.pc = "catch" \/ upstream
        /\ auctions' = [auctions EXCEPT ![i] =
              [a EXCEPT !.pc = "done", !.err = Undefined, !.status = Undefined,
                        !.lastModified = Undefined,
                        !.promise = Reject(a.promise, APIError(500, Undefined))]]
        /\ UNCHANGED <<args, threw, client, calls, lastCall, lastRequest>>

\* lines 100-102: run with the error thrown or rejected upstream, which is
\* the rejection of query() when no handler has run
auctionCatch(i) ==
    LET a == auctions[i]
        upstream == a.pc = "wait" /\ calls[i].promise.state = "rejected"
        err == IF upstream THEN calls[i].promise.value ELSE a.err
    IN  /\ a.pc = "catch" \/ upstream
        /\ auctions' = [auctions EXCEPT ![i] =
              [a EXCEPT !.pc = "done", !.err = Undefined, !.status = Undefined,
                        !.lastModified = Undefined,
                        !.promise = Reject(a.promise, err)]]
        /\ UNCHANGED <<args, threw, client, calls, lastCall, lastRequest>>

(***************************************************************************)
(* Specification                                                           *)
(***************************************************************************)
Params == {Undefined, Obj(<< <<"locale", Str("es_MX")>> >>)}

RealmArgs == {Null, Str("medivh"), Arr(<<Str("medivh"), Str("aegwynn")>>)}

RealmParams == {Obj(<<>>), Obj(<< <<"realms", Str("tichondrius")>> >>)}

Responses == {Response(st, b) : st \in Statuses, b \in Bodies}

FileResponses == {Response(st, b) : st \in Statuses, b \in FileBodies}

Next ==
    \/ \E i \in Slots, params \in Params : queryCall(i, "challenge/burning-legion", params)
    \/ \E i \in Slots : achievement(i, 2144, Obj(<<>>))
    \/ \E i \in Slots, realms \in RealmArgs, params \in RealmParams : realm(i, realms, params)
    \/ \E i \in Slots : auction(i, "medivh", Obj(<<>>))
    \/ \E i \in Slots, res \in Responses : queryThen1(i, res)
    \/ \E i \in Slots, e \in TransportFaults : queryFault(i, e)
    \/ \E i \in Slots : queryThen2(i)
    \/ \E i \in Slots : queryCatch(i)
    \/ \E i \in Slots : auctionThen1(i)
    \/ \E i \in Slots, res \in FileResponses \cup {Undefined} : auctionThen2(i, res)
    \/ \E i \in Slots, e \in TransportFaults : auctionFault(i, e)
    \/ \E i \in Slots : auctionThen3(i)
    \/ \E i \in Slots : auctionCatch(i)

Spec == Init /\ [][Next]_vars

\* every argument of the constructor
SpecCtor == InitCtor /\ [][Next]_vars

\* the steps of the chains of slot i: the event loop runs a handler that is
\* ready, and fetchOptions.timeout makes every fetch settle
Progress(i) ==
    \/ \E res \in Responses : queryThen1(i, res)
    \/ \E e \in TransportFaults : queryFault(i, e)
    \/ queryThen2(i)
    \/ queryCatch(i)
    \/ auctionThen1(i)
    \/ \E res \in FileResponses \cup {Undefined} : auctionThen2(i, res)
    \/ \E e \in TransportFaults : auctionFault(i, e)
    \/ auctionThen3(i)
    \/ auctionCatch(i)

FairSpec == Spec /\ \A i \in Slots : WF_vars(Progress(i))

(***************************************************************************)
(* Properties                                                              *)
(***************************************************************************)
Invoked(i) == calls[i].pc # "idle"

IsAuction(i) == auctions[i].pc # "none"

\* the promise the public method returned to its caller
Returned(i) == IF IsAuction(i) THEN auctions[i].promise ELSE calls[i].promise

Rejected(e) == [state |-> "rejected", value |-> e]

Fulfilled(v) == [state |-> "fulfilled", value |-> v]

QueryPairs(q) == {q[j] : j \in DOMAIN q}

ConfiguredKey == args.apiKey.s

ConfiguredLocale == IF args.locale = Undefined THEN "en_US" ELSE args.locale.s

NoExtraParams ==
    /\ lastCall.method \in {"query", "achievement", "auction"}
    /\ lastCall.queryParams \in {Undefined, Obj(<<>>)}

\* C1: a query() whose response has a status in [200,299] resolves with the
\* parsed body, and one whose response has any other status rejects with an
\* APIError carrying that status, whatever the response body is.
C1_StatusClassification ==
    [][\A i \in Slots :
          (calls[i].pc # "done" /\ calls'[i].pc = "done" /\ calls[i].status # Undefined)
          => LET n == calls[i].status.n
                 p == calls'[i].promise
             IN  IF n >= 200 /\ n <= 299
                 THEN p.state = "fulfilled" /\ (calls[i].pc = "then2" => p.value = calls[i].body)
                 ELSE p.state = "rejected" /\ p.value.cls = "APIError" /\ p.value.code = n]_vars

\* C2: whatever calls came before, a call with no extra parameters sends
\* exactly apikey = the configured key and locale = the configured default
\* locale, and a call with {locale: 'es_MX'} sends locale=es_MX.
C2_QueryMerge ==
    lastCall # Undefined =>
        /\ NoExtraParams =>
              /\ Len(lastRequest.query) = 2
              /\ QueryPairs(lastRequest.query) =
                    {<<"apikey", ConfiguredKey>>, <<"locale", ConfiguredLocale>>}
        /\ lastCall.queryParams = Obj(<< <<"locale", Str("es_MX")>> >>) =>
              QsValues(lastRequest.query, "locale") = {"es_MX"}

\* C3: in every reachable state the host, the default query parameters and
\* the fetch options of the client are the ones the constructor set.
C3_ConfigImmutable ==
    client # NoClient => client = constructor(args).this

\* the body with which step 1 of auction() succeeded
Step1Succeeded(i) == IsAuction(i) /\ calls[i].promise.state = "fulfilled"

Step1Body(i) == calls[i].promise.value

FilesMissingOrEmpty(body) ==
    \/ ~ HasKey(body, "files")
    \/ Prop(body, "files") = Arr(<<>>)

\* C4: when step 1 of auction() succeeds with a body whose files field is
\* missing or empty, the promise rejects with APIError(500, "Malformed
\* auction response") and no second request is issued.
C4_MalformedManifest ==
    \A i \in Slots :
        (Step1Succeeded(i) /\ FilesMissingOrEmpty(Step1Body(i)))
        => /\ auctions[i].requests = 0
           /\ auctions[i].promise \in {Pending, Rejected(Malformed)}
           /\ auctions[i].pc = "done" => auctions[i].promise = Rejected(Malformed)

\* lastModified of files[0] of the body of step 1
Step1LastModified(i) == Prop(First(Prop(Step1Body(i), "files")), "lastModified")

\* C5: when both steps succeed, auction() resolves with the second body plus
\* the timestamp field taken from files[0].lastModified of step 1, and the
\* injected value wins over a field of the same name in the second body.
C5_InjectedTimestampWins ==
    [][\A i \in Slots :
          (/\ auctions[i].pc = "then3"
           /\ auctions'[i].pc = "done"
           /\ auctions'[i].promise.state = "fulfilled")
          => LET v == auctions'[i].promise.value
                 b == auctions[i].body
             IN  /\ Prop(v, "lastModified") = Step1LastModified(i)
                 /\ Keys(v) = Keys(b) \cup {"lastModified"}
                 /\ \A k \in Keys(b) \ {"lastModified"} : Prop(v, k) = Prop(b, k)]_vars

\* C6: when step 1 of auction() fails, auction() rejects with that same
\* failure and never issues the second request; the second request is
\* issued only after step 1 has succeeded.
C6_Step1FailurePropagates ==
    \A i \in Slots :
        /\ auctions[i].requests > 0 => Step1Succeeded(i)
        /\ (IsAuction(i) /\ calls[i].promise.state = "rejected")
           => /\ auctions[i].requests = 0
              /\ auctions[i].promise \in {Pending, Rejected(calls[i].promise.value)}
              /\ auctions[i].pc = "done" =>
                    auctions[i].promise = Rejected(calls[i].promise.value)

C6_Witness ==
    \E i \in Slots :
        /\ auctions[i].pc = "done"
        /\ calls[i].promise = Rejected(RequestTimeout)
        /\ auctions[i].promise = Rejected(RequestTimeout)

Settled(i) == Returned(i).state # "pending"

\* every handler of the invocation of slot i has run
ChainsDone(i) == calls[i].pc = "done" /\ auctions[i].pc \in {"none", "done"}

\* C7: every invocation of query() or auction() eventually settles its
\* promise (never neither: a chain that has run to its end has settled it),
\* and a settled promise never changes (never both): exactly one outcome.
C7_ExactlyOneOutcome ==
    /\ \A i \in Slots : <>[](Invoked(i) => Settled(i))
    /\ [](\A i \in Slots : ChainsDone(i) => Settled(i))
    /\ [][\A i \in Slots : Settled(i) => Returned(i)' = Returned(i)]_vars

\* the chain of auction() still runs after the malformed-response rejection
C7_Witness ==
    \E i \in Slots :
        /\ auctions[i].pc = "catch"
        /\ auctions[i].err = TypeError
        /\ auctions[i].promise = Rejected(Malformed)

UrlWithoutLastModified(body) ==
    /\ HasKey(body, "files")
    /\ Prop(body, "files").t = "arr"
    /\ Len(Prop(body, "files").a) > 0
    /\ HasKey(First(Prop(body, "files")), "url")
    /\ ~ HasKey(First(Prop(body, "files")), "lastModified")

\* C8: when step 1 succeeds with a files list whose first element has a url
\* but no lastModified, auction() rejects with the malformed-response
\* failure and issues no second request.
C8_MissingLastModified ==
    \A i \in Slots :
        (Step1Succeeded(i) /\ UrlWithoutLastModified(Step1Body(i)))
        => /\ auctions[i].requests = 0
           /\ auctions[i].promise \in {Pending, Rejected(Malformed)}
           /\ auctions[i].pc = "done" => auctions[i].promise = Rejected(Malformed)

KeyNonEmpty == args.apiKey.t = "str" /\ args.apiKey.s # ""

\* no region is given: the option is left out or is the empty string
RegionAbsent == args.region \in {Undefined, Str("")}

RegionListed == args.region \in {Str("us"), Str("eu")}

DerivedHost ==
    "https://" \o (IF RegionListed THEN args.region.s ELSE "us") \o ".api.battle.net/wow"

ExpectedRealms ==
    IF HasKey(lastCall.queryParams, "realms")
    THEN {Prop(lastCall.queryParams, "realms").s}
    ELSE IF lastCall.arg.t = "str" /\ lastCall.arg.s # ""
    THEN {lastCall.arg.s}
    ELSE IF lastCall.arg.t = "arr"
    THEN {Join(lastCall.arg, ",").s}
    ELSE QsValues(lastRequest.query, "realms")

\* C10: realm(realms, queryParams) requests realm/status with realms equal
\* to the given string, or to the elements of the given array joined by
\* commas, unless queryParams has a realms key, which wins.
C10_RealmFilter ==
    (lastCall # Undefined /\ lastCall.method = "realm")
    => /\ lastRequest.url = client.apiHost \o "/realm/status"
       /\ QsValues(lastRequest.query, "realms") = ExpectedRealms

====
